---- MODULE Spec2Model ----
(***************************************************************************)
(* Model of src/sync_with_spaces.py: the one-shot sync of a local          *)
(* directory with a Hugging Face repository.                               *)
(*                                                                         *)
(* Strings are sequences of one-character strings, so that fnmatch,        *)
(* os.path.basename, os.path.join and sorted() are computed character by   *)
(* character.  A directory tree is a function from its files (each a       *)
(* sequence of names, root first) to the file's content.  The remote       *)
(* repository is a function from the paths it holds to a record with the   *)
(* file's content and whether the service stores it with an LFS SHA-256.   *)
(***************************************************************************)
EXTENDS Integers, Sequences, FiniteSets

VARIABLES
    pc,               \* position of the run in main(), or of the harness
    run,              \* number of the current invocation of main()
    repo_id,          \* main's repo_id argument (a string)
    token_valid,      \* whether the service accepts main's token argument
    directory,        \* the local tree main's directory argument names
    repo_exists,      \* remote: the repository exists
    remote,           \* remote: path -> [content, lfs]
    ignore_patterns,  \* line 92 (an argument of _list_local_files)
    local_files,      \* line 97
    remote_files,     \* line 105
    remote_file_info, \* line 109..117
    metadata_failed,  \* the except branch of line 118 was taken
    operations,       \* line 122
    files_to_add,     \* line 133
    files_skipped,    \* line 134
    abort_reason,     \* the call whose exception ended the run
    create_repo_calls,\* calls of create_repo in this run
    commit_calls,     \* calls of api.create_commit in this run
    committed,        \* this run's commit was applied
    prev_committed,   \* the previous run's commit was applied
    remote_at_start,  \* the remote files when this run started
    existed_at_start  \* whether the repository existed then

vars == <<pc, run, repo_id, token_valid, directory, repo_exists, remote,
          ignore_patterns, local_files, remote_files, remote_file_info,
          metadata_failed, operations, files_to_add, files_skipped,
          abort_reason, create_repo_calls, commit_calls, committed,
          prev_committed, remote_at_start, existed_at_start>>

\* ------------------------------------------------------------------ bounds

\* File contents are 1..MaxContent.
MaxContent == 2

\* main() is invoked at most MaxRuns times in a row on the same tree.
MaxRuns == 2

Contents == 1..MaxContent

\* ------------------------------------------------------------------ strings

\* The characters of the model in code-point order (ASCII).
Alphabet ==
    << "*", ".", "/", "?", "A", "D", "E", "M", "R",
       "a", "b", "c", "d", "g", "h", "i", "l", "m", "t", "u", "x", "y" >>

\* The rank of a character: order-isomorphic to ord() on the alphabet.
Ord(ch) == CHOOSE i \in 1..Len(Alphabet) : Alphabet[i] = ch

Range(s) == {s[i] : i \in 1..Len(s)}

\* Python's < on str: lexicographic by code point.
RECURSIVE StrLess(_, _)
StrLess(s, t) ==
    IF t = <<>> THEN FALSE
    ELSE IF s = <<>> THEN TRUE
    ELSE IF Head(s) = Head(t) THEN StrLess(Tail(s), Tail(t))
    ELSE Ord(Head(s)) < Ord(Head(t))

\* sorted(S) for a set of strings.
RECURSIVE sorted(_)
sorted(S) ==
    IF S = {} THEN <<>>
    ELSE LET least == CHOOSE s \in S : \A t \in S \ {s} : StrLess(s, t)
         IN  <<least>> \o sorted(S \ {least})

\* fnmatch.fnmatch on POSIX (normcase is the identity there): the whole of
\* name matches pat, where * is any run of characters ("/" included) and ?
\* is any one character.  No pattern of the model holds a "[".
RECURSIVE fnmatch(_, _)
fnmatch(name, pat) ==
    IF pat = <<>> THEN name = <<>>
    ELSE IF Head(pat) = "*"
         THEN \/ fnmatch(name, Tail(pat))
              \/ name # <<>> /\ fnmatch(Tail(name), pat)
    ELSE IF name = <<>> THEN FALSE
    ELSE IF Head(pat) = "?" THEN fnmatch(Tail(name), Tail(pat))
    ELSE Head(pat) = Head(name) /\ fnmatch(Tail(name), Tail(pat))

\* os.path.basename: what follows the last "/".
basename(path) ==
    LET slashes == {i \in 1..Len(path) : path[i] = "/"}
        last == IF slashes = {} THEN 0
                ELSE CHOOSE i \in slashes : \A j \in slashes : j <= i
    IN  SubSeq(path, last + 1, Len(path))

\* os.path.join(rel_root, name) if rel_root else name, os.sep replaced by "/".
join(rel_root, name) ==
    IF rel_root = <<>> THEN name ELSE rel_root \o <<"/">> \o name

\* os.path.relpath(root, directory) with "." turned into "": the names of
\* root below directory joined by "/".
RECURSIVE relpath(_)
relpath(names) ==
    IF names = <<>> THEN <<>>
    ELSE join(relpath(SubSeq(names, 1, Len(names) - 1)), names[Len(names)])

\* ------------------------------------------------------------ _is_ignored

_is_ignored(path_in_repo, patterns) ==
    LET base == basename(path_in_repo)
    IN  \E i \in 1..Len(patterns) :
            fnmatch(path_in_repo, patterns[i]) \/ fnmatch(base, patterns[i])

\* ------------------------------------------------------ _list_local_files

\* file lies in the directory root, at any depth.
IsBelow(file, root) ==
    Len(file) > Len(root) /\ SubSeq(file, 1, Len(root)) = root

\* One iteration of the os.walk loop at the directory root, and the
\* iterations for the directories os.walk descends into (the kept ones).
RECURSIVE walk(_, _, _)
walk(tree, root, patterns) ==
    LET rel_root == relpath(root)
        below == {f \in DOMAIN tree : IsBelow(f, root)}
        dirs  == {f[Len(root) + 1] : f \in {g \in below : Len(g) > Len(root) + 1}}
        files == {f[Len(root) + 1] : f \in {g \in below : Len(g) = Len(root) + 1}}
        kept_dirs == {d \in dirs : ~_is_ignored(join(rel_root, d), patterns)}
        out == {p \in {join(rel_root, f) : f \in files} : ~_is_ignored(p, patterns)}
    IN  out \cup UNION {walk(tree, Append(root, d), patterns) : d \in kept_dirs}

\* The listing without the pruning of lines 44..50: every file is tested,
\* no directory is.
_list_local_files_no_prune(tree, patterns) ==
    {p \in {relpath(f) : f \in DOMAIN tree} : ~_is_ignored(p, patterns)}

_list_local_files(tree, patterns) == walk(tree, <<>>, patterns)

\* --------------------------------------------------------- _compute_sha256

\* hashlib.sha256 of a file's bytes: a digest that is not the content and
\* that differs for different contents (no collisions within the model).
_compute_sha256(content) == <<"sha256", content>>

\* The file of tree that os.path.join(directory, path) names.
local_path(tree, path) == CHOOSE f \in DOMAIN tree : relpath(f) = path

\* ------------------------------------------------------------------ inputs

a_txt      == <<"a", ".", "t", "x", "t">>
b_txt      == <<"b", ".", "t", "x", "t">>
c_txt      == <<"c", ".", "t", "x", "t">>
README_md  == <<"R", "E", "A", "D", "M", "E", ".", "m", "d">>
dot_github == <<".", "g", "i", "t", "h", "u", "b">>
ci_yml     == <<"c", "i", ".", "y", "m", "l">>

\* The files a local tree of a sync run may hold.
LocalCandidates ==
    {<<a_txt>>, <<b_txt>>, <<c_txt>>, <<README_md>>, <<dot_github, ci_yml>>}

\* The paths the remote repository may hold before the first run.
RemoteCandidates == {a_txt, b_txt, c_txt, README_md}

\* Only a.txt varies in content, locally and remotely; the remote README.md
\* differs from the local one; only a.txt and b.txt may be LFS files.
LocalTrees ==
    {t \in UNION {[S -> Contents] : S \in SUBSET LocalCandidates} :
        \A f \in DOMAIN t : f # <<a_txt>> => t[f] = 1}

RemoteFile == [content : Contents, lfs : BOOLEAN]

InitialRemotes ==
    {r \in UNION {[S -> RemoteFile] : S \in SUBSET RemoteCandidates} :
        \A p \in DOMAIN r :
            /\ p \notin {a_txt, README_md} => r[p].content = 1
            /\ p = README_md => r[p].content = MaxContent
            /\ p \notin {a_txt, b_txt} => ~r[p].lfs}

\* The name whoami() returns for a valid token.
username == <<"u">>

\* A bare repo id and an owner/name one.
RepoIds == {<<"a", "b">>, <<"u", "/", "a", "b">>}

NoFiles == [p \in {} |-> 1]

\* ------------------------------------------------------------------- Init

Init ==
    /\ pc = "start"
    /\ run = 1
    /\ repo_id \in RepoIds
    /\ token_valid \in BOOLEAN
    /\ directory \in LocalTrees
    /\ repo_exists \in BOOLEAN
    /\ remote \in IF repo_exists THEN InitialRemotes ELSE {NoFiles}
    /\ ignore_patterns = <<>>
    /\ local_files = {}
    /\ remote_files = {}
    /\ remote_file_info = NoFiles
    /\ metadata_failed = FALSE
    /\ operations = <<>>
    /\ files_to_add = <<>>
    /\ files_skipped = 0
    /\ abort_reason = "none"
    /\ create_repo_calls = 0
    /\ commit_calls = 0
    /\ committed = FALSE
    /\ prev_committed = FALSE
    /\ remote_at_start = remote
    /\ existed_at_start = repo_exists

\* An uncaught exception of the named call ends the run.
Abort(reason) ==
    /\ pc' = "aborted"
    /\ abort_reason' = reason

\* ------------------------------------------------------------ main: 72..80

\* create_repo called on the id as given, before whoami resolves the name.
ResolveIdentity_creates_first ==
    /\ pc = "start"
    /\ create_repo_calls' = create_repo_calls + 1
    /\ repo_exists' = (repo_exists \/ token_valid)
    /\ \/ /\ "/" \in Range(repo_id)
          /\ pc' = "create_repo"
          /\ UNCHANGED <<repo_id, abort_reason>>
       \/ /\ "/" \notin Range(repo_id)
          /\ token_valid
          /\ repo_id' = username \o <<"/">> \o repo_id
          /\ pc' = "create_repo"
          /\ UNCHANGED abort_reason
       \/ /\ "/" \notin Range(repo_id)
          /\ Abort("whoami")
          /\ UNCHANGED repo_id
    /\ UNCHANGED <<run, token_valid, directory, remote, ignore_patterns,
                   local_files, remote_files, remote_file_info,
                   metadata_failed, operations, files_to_add, files_skipped,
                   commit_calls, committed, prev_committed, remote_at_start,
                   existed_at_start>>

\* "/" not in repo_id: whoami(token)["name"] is prefixed, or whoami raises.
ResolveIdentity ==
    /\ pc = "start"
    /\ \/ /\ "/" \in Range(repo_id)
          /\ pc' = "create_repo"
          /\ UNCHANGED <<repo_id, abort_reason>>
       \/ /\ "/" \notin Range(repo_id)
          /\ token_valid
          /\ repo_id' = username \o <<"/">> \o repo_id
          /\ pc' = "create_repo"
          /\ UNCHANGED abort_reason
       \/ /\ "/" \notin Range(repo_id)
          /\ Abort("whoami")
          /\ UNCHANGED repo_id
    /\ UNCHANGED <<run, token_valid, directory, repo_exists, remote,
                   ignore_patterns, local_files, remote_files,
                   remote_file_info, metadata_failed, operations,
                   files_to_add, files_skipped, create_repo_calls,
                   commit_calls, committed, prev_committed, remote_at_start,
                   existed_at_start>>

\* ------------------------------------------------------------ main: 82..90

\* create_repo(exist_ok=True): the repository exists afterwards; a rejected
\* token raises and changes nothing.
CreateRepo ==
    /\ pc = "create_repo"
    /\ create_repo_calls' = create_repo_calls + 1
    /\ \/ /\ token_valid
          /\ repo_exists' = TRUE
          /\ pc' = "list_files"
          /\ UNCHANGED abort_reason
       \/ /\ ~token_valid
          /\ Abort("create_repo")
          /\ UNCHANGED repo_exists
    /\ UNCHANGED <<run, repo_id, token_valid, directory, remote,
                   ignore_patterns, local_files, remote_files,
                   remote_file_info, metadata_failed, operations,
                   files_to_add, files_skipped, commit_calls, committed,
                   prev_committed, remote_at_start,
                   existed_at_start>>

\* ----------------------------------------------------------- main: 92..106

hard_coded_patterns ==
    << <<"*", ".", "g", "i", "t", "*">>,
       <<"*", ".", "g", "i", "t", "h", "u", "b", "*">>,
       <<"*", "R", "E", "A", "D", "M", "E", ".", "m", "d", "*">> >>

\* The remote listing left unfiltered.
filter_remote_keep_all(remote_files_all, patterns) == remote_files_all

\* Line 105.
filter_remote(remote_files_all, patterns) ==
    {p \in remote_files_all : ~_is_ignored(p, patterns)}

ListFiles ==
    /\ pc = "list_files"
    /\ ignore_patterns' = hard_coded_patterns
    /\ local_files' = _list_local_files(directory, ignore_patterns')
    /\ \/ /\ remote_files' = filter_remote(DOMAIN remote, ignore_patterns')
          /\ pc' = "fetch_metadata"
          /\ UNCHANGED abort_reason
       \/ /\ Abort("list_repo_files")
          /\ UNCHANGED remote_files
    /\ UNCHANGED <<run, repo_id, token_valid, directory, repo_exists, remote,
                   remote_file_info, metadata_failed, operations,
                   files_to_add, files_skipped, create_repo_calls,
                   commit_calls, committed, prev_committed, remote_at_start,
                   existed_at_start>>

\* ---------------------------------------------------------- main: 108..120

\* A fingerprint stored for every listed remote file, LFS or not.
siblings_info_every_file(repo, listed) ==
    [p \in {q \in DOMAIN repo : q \in listed}
        |-> _compute_sha256(repo[p].content)]

\* What lines 112..117 store from repo_info.siblings: the LFS SHA-256 of
\* each listed remote file that has one.
siblings_info(repo, listed) ==
    [p \in {q \in DOMAIN repo : q \in listed /\ repo[q].lfs}
        |-> _compute_sha256(repo[p].content)]

\* The except branch not taken over: the exception of repo_info ends the run.
FetchMetadata_uncaught ==
    /\ pc = "fetch_metadata"
    /\ \/ /\ remote_file_info' = siblings_info(remote, remote_files)
          /\ pc' = "reconcile"
          /\ UNCHANGED <<metadata_failed, abort_reason>>
       \/ /\ metadata_failed' = TRUE
          /\ Abort("repo_info")
          /\ UNCHANGED remote_file_info
    /\ UNCHANGED <<run, repo_id, token_valid, directory, repo_exists, remote,
                   ignore_patterns, local_files, remote_files, operations,
                   files_to_add, files_skipped, create_repo_calls,
                   commit_calls, committed, prev_committed, remote_at_start,
                   existed_at_start>>

FetchMetadata ==
    /\ pc = "fetch_metadata"
    /\ \/ /\ remote_file_info' = siblings_info(remote, remote_files)
          /\ UNCHANGED metadata_failed
       \/ /\ metadata_failed' = TRUE
          /\ UNCHANGED remote_file_info
    /\ pc' = "reconcile"
    /\ UNCHANGED <<run, repo_id, token_valid, directory, repo_exists, remote,
                   ignore_patterns, local_files, remote_files, operations,
                   files_to_add, files_skipped, abort_reason,
                   create_repo_calls, commit_calls, committed,
                   prev_committed, remote_at_start,
                   existed_at_start>>

\* ---------------------------------------------------------- main: 122..159

\* Deleting every listed remote file, local or not.
files_to_delete_all_remote(remote_listed, local_listed) == remote_listed

\* Deleting nothing.
files_to_delete_nothing(remote_listed, local_listed) == {}

\* Line 125.
files_to_delete(remote_listed, local_listed) == remote_listed \ local_listed

\* Skipping every file the remote holds a fingerprint of, equal or not.
is_unchanged_by_presence(tree, info, path) == path \in DOMAIN info

\* Lines 139..144: the file has a stored remote fingerprint and the SHA-256
\* of the local file equals it.
is_unchanged(tree, info, path) ==
    /\ path \in DOMAIN info
    /\ _compute_sha256(tree[local_path(tree, path)]) = info[path]

\* The paths of seq that the loop of lines 135..152 appends to files_to_add.
RECURSIVE paths_to_add(_, _, _)
paths_to_add(tree, info, seq) ==
    IF seq = <<>> THEN <<>>
    ELSE IF is_unchanged(tree, info, Head(seq))
         THEN paths_to_add(tree, info, Tail(seq))
         ELSE <<Head(seq)>> \o paths_to_add(tree, info, Tail(seq))

CommitOperationDelete(path) == [kind |-> "delete", path_in_repo |-> path]

CommitOperationAdd(path, file) ==
    [kind |-> "add", path_in_repo |-> path, path_or_fileobj |-> file]

\* The operations list of lines 122..152: the deletes in sorted order, then
\* the adds in sorted order.
build_operations(tree, info, local_listed, remote_listed) ==
    LET deletes == sorted(files_to_delete(remote_listed, local_listed))
        adds == paths_to_add(tree, info, sorted(local_listed))
    IN  [i \in 1..Len(deletes) |-> CommitOperationDelete(deletes[i])]
        \o [i \in 1..Len(adds) |->
              CommitOperationAdd(adds[i], local_path(tree, adds[i]))]

Reconcile ==
    /\ pc = "reconcile"
    /\ LET candidates == sorted(local_files)
           adds == paths_to_add(directory, remote_file_info, candidates)
       IN  /\ files_to_add' = adds
           /\ files_skipped' = Len(candidates) - Len(adds)
    /\ operations' = build_operations(directory, remote_file_info,
                                       local_files, remote_files)
    /\ pc' = "finish"
    /\ UNCHANGED <<run, repo_id, token_valid, directory, repo_exists, remote,
                   ignore_patterns, local_files, remote_files,
                   remote_file_info, metadata_failed, abort_reason,
                   create_repo_calls, commit_calls, committed,
                   prev_committed, remote_at_start,
                   existed_at_start>>

\* ---------------------------------------------------------- main: 161..171

OpPaths(ops, kind) ==
    {ops[i].path_in_repo : i \in {j \in 1..Len(ops) : ops[j].kind = kind}}

\* The repository after one atomic commit of ops: the deleted paths are
\* gone, each added path holds the bytes of its local file, and the service
\* stores the added paths of lfs_paths as LFS files.
apply_commit(repo, ops, tree, lfs_paths) ==
    LET deleted == OpPaths(ops, "delete")
        added   == OpPaths(ops, "add")
        source(p) == CHOOSE i \in 1..Len(ops) :
                        ops[i].kind = "add" /\ ops[i].path_in_repo = p
    IN  [p \in (DOMAIN repo \ deleted) \cup added |->
            IF p \in added
            THEN [content |-> tree[ops[source(p)].path_or_fileobj],
                  lfs |-> p \in lfs_paths]
            ELSE repo[p]]

\* The guard of line 161 dropped: an empty commit is submitted too.
must_commit_always(ops) == TRUE

\* Line 161: "if not operations: return".
must_commit(ops) == ops # <<>>

Finish ==
    /\ pc = "finish"
    /\ \/ /\ ~must_commit(operations)
          /\ pc' = "done"
          /\ UNCHANGED <<remote, commit_calls, committed, abort_reason>>
       \/ /\ must_commit(operations)
          /\ commit_calls' = commit_calls + 1
          /\ \E lfs_paths \in SUBSET OpPaths(operations, "add") :
                remote' = apply_commit(remote, operations, directory, lfs_paths)
          /\ committed' = TRUE
          /\ pc' = "done"
          /\ UNCHANGED abort_reason
       \/ /\ must_commit(operations)
          /\ commit_calls' = commit_calls + 1
          /\ Abort("create_commit")
          /\ UNCHANGED <<remote, committed>>
    /\ UNCHANGED <<run, repo_id, token_valid, directory, repo_exists,
                   ignore_patterns, local_files, remote_files,
                   remote_file_info, metadata_failed, operations,
                   files_to_add, files_skipped, create_repo_calls,
                   prev_committed, remote_at_start,
                   existed_at_start>>

\* ------------------------------------------------------------ the pipeline

\* The repository a repo id names once line 76 has run.
Qualified(id) == IF "/" \in Range(id) THEN id ELSE username \o <<"/">> \o id

\* The pipeline invokes main() again on the same repository and the same,
\* unchanged, directory after a run that ended successfully.
Rerun ==
    /\ pc = "done"
    /\ run < MaxRuns
    /\ run' = run + 1
    /\ pc' = "start"
    /\ repo_id' \in {id \in RepoIds : Qualified(id) = repo_id}
    /\ prev_committed' = committed
    /\ remote_at_start' = remote
    /\ existed_at_start' = repo_exists
    /\ ignore_patterns' = <<>>
    /\ local_files' = {}
    /\ remote_files' = {}
    /\ remote_file_info' = NoFiles
    /\ metadata_failed' = FALSE
    /\ operations' = <<>>
    /\ files_to_add' = <<>>
    /\ files_skipped' = 0
    /\ create_repo_calls' = 0
    /\ commit_calls' = 0
    /\ committed' = FALSE
    /\ UNCHANGED <<token_valid, directory, repo_exists, remote, abort_reason>>

\* One step of main().
MainStep ==
    \/ ResolveIdentity
    \/ CreateRepo
    \/ ListFiles
    \/ FetchMetadata
    \/ Reconcile
    \/ Finish

Next == MainStep \/ Rerun

Spec == Init /\ [][Next]_vars

\* ------------------------------------------- _list_local_files on its own

dot_git == <<".", "g", "i", "t">>
c_x     == <<"c", ".", "x">>

\* The files a tree handed to _list_local_files may hold.
ListCandidates ==
    { <<c_x>>, <<<<"a">>, c_x>>, <<<<"a">>, <<"b">>, c_x>>,
      <<dot_git, c_x>>, <<<<"b">>, <<"a">>>>, <<<<"b">>, dot_git>> }

ListTrees == UNION {[S -> {1}] : S \in SUBSET ListCandidates}

\* The patterns a list handed to _list_local_files may hold: one that
\* matches by containment, a directory's name, a directory's relative path,
\* any one-character name.
PatternPool ==
    << <<"*", ".", "g", "i", "t", "*">>, <<"b">>, <<"a", "/", "b">>, <<"?">> >>

\* The elements of seq at the indices of I, in order.
RECURSIVE Pick(_, _)
Pick(seq, I) ==
    IF seq = <<>> THEN <<>>
    ELSE LET rest == Pick(SubSeq(seq, 1, Len(seq) - 1), I)
         IN  IF Len(seq) \in I THEN Append(rest, seq[Len(seq)]) ELSE rest

PatternLists == {Pick(PatternPool, I) : I \in SUBSET (1..Len(PatternPool))}

InitList ==
    /\ pc = "call"
    /\ run = 1
    /\ repo_id = <<>>
    /\ token_valid = TRUE
    /\ directory \in ListTrees
    /\ repo_exists = FALSE
    /\ remote = NoFiles
    /\ ignore_patterns \in PatternLists
    /\ local_files = {}
    /\ remote_files = {}
    /\ remote_file_info = NoFiles
    /\ metadata_failed = FALSE
    /\ operations = <<>>
    /\ files_to_add = <<>>
    /\ files_skipped = 0
    /\ abort_reason = "none"
    /\ create_repo_calls = 0
    /\ commit_calls = 0
    /\ committed = FALSE
    /\ prev_committed = FALSE
    /\ remote_at_start = remote
    /\ existed_at_start = repo_exists

\* local_files = _list_local_files(directory, ignore_patterns)
ListLocalFilesCall ==
    /\ pc = "call"
    /\ local_files' = _list_local_files(directory, ignore_patterns)
    /\ pc' = "returned"
    /\ UNCHANGED <<run, repo_id, token_valid, directory, repo_exists, remote,
                   ignore_patterns, remote_files, remote_file_info,
                   metadata_failed, operations, files_to_add, files_skipped,
                   abort_reason, create_repo_calls, commit_calls, committed,
                   prev_committed, remote_at_start,
                   existed_at_start>>

NextList == ListLocalFilesCall

SpecList == InitList /\ [][NextList]_vars

\* ================================================================= claims

\* The run has built its operations (lines 122..159 are behind it).
Reconciled ==
    \/ pc \in {"finish", "done"}
    \/ pc = "aborted" /\ abort_reason = "create_commit"

Deletions == OpPaths(operations, "delete")

Uploads == OpPaths(operations, "add")

LocalContent(path) == directory[local_path(directory, path)]

\* C1: once main() has built its operations, the paths it builds a delete
\* operation for are exactly the filtered remote files that are not among
\* the filtered local files, one operation each, and none is a local file.
C1_DeletionsAreRemoteMinusLocal ==
    Reconciled =>
        /\ Deletions = {p \in remote_files : p \notin local_files}
        /\ Deletions \cap local_files = {}
        /\ Cardinality(Deletions)
             = Cardinality({i \in 1..Len(operations) : operations[i].kind = "delete"})

C1_Witness ==
    /\ pc = "finish"
    /\ Deletions # {}
    /\ local_files \cap remote_files # {}
    /\ local_files \ remote_files # {}

\* C2: create_commit is called at most once in a run and only with a
\* non-empty operations list; a run without operations ends successfully
\* with no call of create_commit and the remote as it was.
C2_CommitOnlyWhenNonEmpty ==
    /\ commit_calls <= 1
    /\ commit_calls = 1 => operations # <<>>
    /\ (pc = "aborted" /\ abort_reason = "create_commit") => operations # <<>>
    /\ (pc = "done" /\ operations = <<>>) =>
            /\ commit_calls = 0
            /\ ~committed
            /\ remote = remote_at_start

C2_Witness ==
    /\ pc = "done"
    /\ operations = <<>>
    /\ commit_calls = 0
    /\ local_files # {}

\* C3: in a run that follows a run whose commit was applied, on the same
\* unchanged local tree, the operations list is empty and create_commit is
\* not called.
C3_SecondRunIsNoOp ==
    (run > 1 /\ prev_committed) =>
        /\ commit_calls = 0
        /\ Reconciled => operations = <<>>

NoFingerprints ==
    \/ metadata_failed
    \/ \A p \in remote_files : ~remote_at_start[p].lfs

CommitOrNoOp ==
    \/ commit_calls = 1
    \/ pc = "done" /\ operations = <<>>

\* C6: a failed metadata fetch does not end the run: the run goes on (it
\* has a next step) until it has called create_commit or taken the no-op
\* exit, nothing but create_commit ends it with an error, and the deletions
\* it builds are those the operations built from a successful fetch hold.
C6_MetadataFailureDegrades ==
    metadata_failed =>
        /\ pc \in {"reconcile", "finish", "done", "aborted"}
        /\ pc = "aborted" => abort_reason = "create_commit"
        /\ pc \in {"reconcile", "finish"} => ENABLED MainStep
        /\ pc \in {"done", "aborted"} => CommitOrNoOp
        /\ Reconciled =>
              Deletions =
                OpPaths(build_operations(directory,
                                         siblings_info(remote_at_start, remote_files),
                                         local_files, remote_files), "delete")

C6_Witness ==
    /\ metadata_failed
    /\ pc = "done"
    /\ committed
    /\ Deletions # {}
    /\ \E p \in remote_files : remote_at_start[p].lfs

\* C7: a run that whoami or a rejected token ends has changed nothing
\* remotely and has called create_commit never, and create_repo never when
\* it is whoami that ended it; a rejected token lets no run past create_repo.
C7_AuthFailureBeforeMutation ==
    /\ (pc = "aborted" /\ abort_reason \in {"whoami", "create_repo"}) =>
            /\ remote = remote_at_start
            /\ repo_exists = existed_at_start
            /\ commit_calls = 0
            /\ ~committed
            /\ abort_reason = "whoami" => create_repo_calls = 0
    /\ ~token_valid => pc \in {"start", "create_repo", "aborted"}
    /\ (~token_valid /\ pc = "aborted") =>
            abort_reason \in {"whoami", "create_repo"}

C7_Witness ==
    /\ pc = "aborted"
    /\ abort_reason = "whoami"
    /\ "/" \notin Range(repo_id)
    /\ ~repo_exists
    /\ create_repo_calls = 0

\* The paths of the sync runs of the model that match a hard-coded pattern
\* by full path or by basename.
IgnoredPaths ==
    {p \in RemoteCandidates \cup {relpath(f) : f \in LocalCandidates} :
        \E pat \in Range(hard_coded_patterns) :
            fnmatch(p, pat) \/ fnmatch(basename(p), pat)}

\* The directories a path lies in, as relative paths.
AncestorDirs(path) ==
    {SubSeq(path, 1, i - 1) : i \in {j \in 1..Len(path) : path[j] = "/"}}

\* path, or its last name, matches a pattern of the list.
Matches(path, patterns) ==
    \E pat \in Range(patterns) :
        fnmatch(path, pat) \/ fnmatch(basename(path), pat)

\* C8: no path _list_local_files returns matches a pattern by its full
\* relative path or by its basename, and none lies in a directory, at any
\* depth, whose relative path or name matches a pattern.
C8_ListingExcludesIgnored ==
    pc = "returned" =>
        \A p \in local_files :
            /\ ~Matches(p, ignore_patterns)
            /\ \A d \in AncestorDirs(p) : ~Matches(d, ignore_patterns)

\* A file that matches no pattern lies in a directory that matches one, and
\* it is not returned while another file is.
C8_Witness ==
    /\ pc = "returned"
    /\ local_files # {}
    /\ \E f \in DOMAIN directory :
          /\ ~Matches(relpath(f), ignore_patterns)
          /\ \E d \in AncestorDirs(relpath(f)) : Matches(d, ignore_patterns)
          /\ relpath(f) \notin local_files

\* C9: when a run ends successfully the remote paths that are not ignored
\* are the local file set, and every local file that had a stored remote
\* fingerprint has its local content remotely.
C9_MirrorOnSuccess ==
    pc = "done" =>
        /\ DOMAIN remote \ IgnoredPaths = local_files
        /\ \A p \in local_files :
              p \in DOMAIN remote_file_info => remote[p].content = LocalContent(p)

C9_Witness ==
    /\ pc = "done"
    /\ committed
    /\ Deletions # {}
    /\ \E p \in local_files :
          /\ p \in DOMAIN remote_file_info
          /\ remote_at_start[p].content # LocalContent(p)
          /\ remote[p].content = LocalContent(p)

\* C10: no operation of a run names a path that matches an ignore pattern,
\* and every remote file at such a path is, in every state of the run, as
\* it was when the run started.
C10_IgnoredRemoteUntouched ==
    /\ \A i \in 1..Len(operations) :
          operations[i].path_in_repo \notin IgnoredPaths
    /\ \A p \in DOMAIN remote_at_start \cap IgnoredPaths :
          p \in DOMAIN remote /\ remote[p] = remote_at_start[p]

C10_Witness ==
    /\ pc = "done"
    /\ committed
    /\ Deletions # {}
    /\ Uploads # {}
    /\ README_md \in IgnoredPaths
    /\ README_md \in DOMAIN remote
    /\ <<README_md>> \notin DOMAIN directory

====
